---- MODULE Spec2Model ----
(***************************************************************************)
(* Saudi Government Services Navigator: the intent-resolution pipeline of  *)
(* llm_backend.py (language detection, key matcher, reply parser, response *)
(* formatter) and the query-processing flow of app.py.                     *)
(*                                                                         *)
(* Strings are TLA+ strings; TLC evaluates Len, SubSeq and \o on them, so  *)
(* the Python string and regular-expression operations are modelled        *)
(* character by character.  TLA+ strings are ASCII: the characters of      *)
(* ArabicLetters stand for letters of the Unicode block U+0600..U+06FF.    *)
(***************************************************************************)
EXTENDS Integers, Sequences, FiniteSets, TLC

(***************************************************************************)
(* Characters and the Python str methods used by the code.                 *)
(***************************************************************************)
LowerAlpha == "abcdefghijklmnopqrstuvwxyz"
UpperAlpha == "ABCDEFGHIJKLMNOPQRSTUVWXYZ"
Digits == "0123456789"
ArabicLetters == "@&"

Ch(s, i) == SubSeq(s, i, i)

CharsOf(s) == {Ch(s, i) : i \in 1..Len(s)}

PosIn(c, alpha) ==
    IF \E i \in 1..Len(alpha) : Ch(alpha, i) = c
    THEN CHOOSE i \in 1..Len(alpha) : Ch(alpha, i) = c
    ELSE 0

\* the character classes and case maps, as tables
LatinChars == CharsOf(LowerAlpha) \cup CharsOf(UpperAlpha)

ArabicChars == CharsOf(ArabicLetters)

WordChars == LatinChars \cup ArabicChars \cup CharsOf(Digits) \cup {"_"}

SpaceChars == {" ", "\n", "\t"}

ToLower == [c \in CharsOf(UpperAlpha) |-> Ch(LowerAlpha, PosIn(c, UpperAlpha))]

ToUpper == [c \in CharsOf(LowerAlpha) |-> Ch(UpperAlpha, PosIn(c, LowerAlpha))]

IsLatin(c) == c \in LatinChars

IsArabic(c) == c \in ArabicChars

\* \s of the re module
IsSpace(c) == c \in SpaceChars

\* \w of the re module (str patterns: Unicode letters, digits, underscore)
IsWord(c) == c \in WordChars

LowerCh(c) == IF c \in DOMAIN ToLower THEN ToLower[c] ELSE c

UpperCh(c) == IF c \in DOMAIN ToUpper THEN ToUpper[c] ELSE c

RECURSIVE Lower(_)
Lower(s) == IF s = "" THEN "" ELSE LowerCh(Ch(s, 1)) \o Lower(SubSeq(s, 2, Len(s)))

RECURSIVE Upper(_)
Upper(s) == IF s = "" THEN "" ELSE UpperCh(Ch(s, 1)) \o Upper(SubSeq(s, 2, Len(s)))

MinOf(S) == CHOOSE i \in S : \A j \in S : i <= j

MaxOf(S) == CHOOSE i \in S : \A j \in S : i >= j

\* str.strip(chars): drop leading and trailing characters that satisfy the test
StripSet(s, cs) ==
    LET keep == {i \in 1..Len(s) : Ch(s, i) \notin cs}
    IN  IF keep = {} THEN "" ELSE SubSeq(s, MinOf(keep), MaxOf(keep))

Strip(s) == StripSet(s, SpaceChars)

\* str.find: the least index >= from at which sub occurs, 0 when there is none
Find(s, sub, from) ==
    LET at == {i \in from..(Len(s) - Len(sub) + 1) : SubSeq(s, i, i + Len(sub) - 1) = sub}
    IN  IF at = {} THEN 0 ELSE MinOf(at)

\* the `in` operator on strings
Contains(s, sub) == Find(s, sub, 1) > 0

\* str.replace(old, new), old non-empty
RECURSIVE Replace(_, _, _)
Replace(s, old, new) ==
    LET p == Find(s, old, 1)
    IN  IF p = 0 THEN s
        ELSE SubSeq(s, 1, p - 1) \o new \o Replace(SubSeq(s, p + Len(old), Len(s)), old, new)

\* str.split(sep), sep non-empty
RECURSIVE Split(_, _)
Split(s, sep) ==
    LET p == Find(s, sep, 1)
    IN  IF p = 0 THEN <<s>>
        ELSE <<SubSeq(s, 1, p - 1)>> \o Split(SubSeq(s, p + Len(sep), Len(s)), sep)

\* str.split() without argument: the maximal runs of non-whitespace
RECURSIVE SplitWS(_)
SplitWS(s) ==
    LET t == Strip(s)
        sp == {i \in 1..Len(t) : IsSpace(Ch(t, i))}
    IN  IF t = "" THEN <<>>
        ELSE IF sp = {} THEN <<t>>
        ELSE <<SubSeq(t, 1, MinOf(sp) - 1)>> \o SplitWS(SubSeq(t, MinOf(sp), Len(t)))

\* end of the maximal run of characters from position i on that satisfy \w (i - 1 when none)
WordRunEnd(s, i) ==
    LET stop == {j \in i..Len(s) : ~IsWord(Ch(s, j))}
    IN  IF stop = {} THEN Len(s) ELSE MinOf(stop) - 1

\* end of the maximal run of non-whitespace from position i on
NonSpaceRunEnd(s, i) ==
    LET stop == {j \in i..Len(s) : IsSpace(Ch(s, j))}
    IN  IF stop = {} THEN Len(s) ELSE MinOf(stop) - 1

\* end of the maximal run of whitespace from position i on
SpaceRunEnd(s, i) ==
    LET stop == {j \in i..Len(s) : ~IsSpace(Ch(s, j))}
    IN  IF stop = {} THEN Len(s) ELSE MinOf(stop) - 1

(***************************************************************************)
(* The regular expressions of llm_backend.py.                              *)
(***************************************************************************)
SERVICE_KEY_MARKER == "SERVICE_KEY:"

\* re.sub(r'SERVICE_KEY:\s*\S+', '', s): the marker, the whitespace after it and
\* the non-empty run of non-whitespace that follows are removed, left to right
RECURSIVE SubServiceKeyFragments(_)
SubServiceKeyFragments(s) ==
    LET p == Find(s, SERVICE_KEY_MARKER, 1)
        tokStart == SpaceRunEnd(s, p + Len(SERVICE_KEY_MARKER)) + 1
        tokEnd == NonSpaceRunEnd(s, tokStart)
    IN  IF p = 0 THEN s
        ELSE IF tokEnd >= tokStart
        THEN SubSeq(s, 1, p - 1) \o SubServiceKeyFragments(SubSeq(s, tokEnd + 1, Len(s)))
        ELSE SubSeq(s, 1, p) \o SubServiceKeyFragments(SubSeq(s, p + 1, Len(s)))

\* \w+_\w+ tried at position i: \w also matches the underscore, so the match is
\* the whole run of word characters from i on, provided an underscore lies
\* strictly inside it; the result is the end of the match, 0 when there is none
SnakeCoreEnd(s, i) ==
    LET e == WordRunEnd(s, i)
    IN  IF \E j \in (i + 1)..(e - 1) : Ch(s, j) = "_" THEN e ELSE 0

\* \[?\w+_\w+\]? tried at position 1 of s: the end of the match, 0 when there is none
SnakeMatchEnd(s) ==
    LET e == IF Ch(s, 1) = "[" THEN SnakeCoreEnd(s, 2) ELSE SnakeCoreEnd(s, 1)
    IN  IF e = 0 THEN 0
        ELSE IF e < Len(s) /\ Ch(s, e + 1) = "]" THEN e + 1 ELSE e

\* re.sub(r'\[?\w+_\w+\]?', '', s)
RECURSIVE SubSnakeTokens(_)
SubSnakeTokens(s) ==
    IF s = "" THEN ""
    ELSE IF SnakeMatchEnd(s) > 0
    THEN SubSnakeTokens(SubSeq(s, SnakeMatchEnd(s) + 1, Len(s)))
    ELSE Ch(s, 1) \o SubSnakeTokens(SubSeq(s, 2, Len(s)))

IsWordAt(s, i) == i \in 1..Len(s) /\ IsWord(Ch(s, i))

\* \b at the gap before position i
Boundary(s, i) == IsWordAt(s, i - 1) # IsWordAt(s, i)

\* re.search(r'\b' + re.escape(key) + r'\b', text)
WholeWordSearch(key, text) ==
    \E p \in 1..(Len(text) - Len(key) + 1) :
        /\ SubSeq(text, p, p + Len(key) - 1) = key
        /\ Boundary(text, p)
        /\ Boundary(text, p + Len(key))

(***************************************************************************)
(* extract_service_key                                                     *)
(***************************************************************************)
\* Python's None, a value no string of the model equals
None == "<None>"

\* the key a for loop over the list returns: the first one among the positions
\* whose key passes the test of the loop, None when the loop ends without one
FirstKey(keys, hit) == IF hit = {} THEN None ELSE keys[MinOf(hit)]

StrategyA(key, text) == WholeWordSearch(key, text)

StrategyB(key, text) == Contains(text, Replace(key, "_", " "))

\* mutant: each key is tried by Strategy A and then B before the next key
extract_service_key_Interleaved(response, valid_keys) ==
    LET text == Strip(Lower(response))
        ByAOrB == {i \in 1..Len(valid_keys) :
                      StrategyA(valid_keys[i], text) \/ StrategyB(valid_keys[i], text)}
    IN  IF Contains(text, "none") /\ Len(text) < 20 THEN None
        ELSE FirstKey(valid_keys, ByAOrB)

\* mutant: a candidate that matches no key is returned as it is
extract_service_key_Unvalidated(response, valid_keys) ==
    LET text == Strip(Lower(response))
        ByA == {i \in 1..Len(valid_keys) : StrategyA(valid_keys[i], text)}
        ByB == {i \in 1..Len(valid_keys) : StrategyB(valid_keys[i], text)}
    IN  IF Contains(text, "none") /\ Len(text) < 20 THEN None
        ELSE IF FirstKey(valid_keys, ByA) # None THEN FirstKey(valid_keys, ByA)
        ELSE IF FirstKey(valid_keys, ByB) # None THEN FirstKey(valid_keys, ByB)
        ELSE IF text # "" THEN text
        ELSE None

extract_service_key(response, valid_keys) ==
    LET text == Strip(Lower(response))
        ByA == {i \in 1..Len(valid_keys) : StrategyA(valid_keys[i], text)}
        ByB == {i \in 1..Len(valid_keys) : StrategyB(valid_keys[i], text)}
    IN  IF Contains(text, "none") /\ Len(text) < 20 THEN None
        ELSE IF FirstKey(valid_keys, ByA) # None THEN FirstKey(valid_keys, ByA)
        ELSE FirstKey(valid_keys, ByB)

(***************************************************************************)
(* detect_query_language                                                   *)
(***************************************************************************)
\* len(re.findall(class, text)) for a character class
CountChars(text, class) == Cardinality({i \in 1..Len(text) : Ch(text, i) \in class})

\* mutant: a tie between the two counts is decided for Arabic
detect_query_language_TieIsArabic(text) ==
    LET arabic_chars == CountChars(text, ArabicChars)
        english_chars == CountChars(text, LatinChars)
    IN  IF arabic_chars >= english_chars THEN "ar" ELSE "en"

detect_query_language(text) ==
    LET arabic_chars == CountChars(text, ArabicChars)
        english_chars == CountChars(text, LatinChars)
    IN  IF arabic_chars > english_chars THEN "ar" ELSE "en"

(***************************************************************************)
(* ask_llm_intent: the canned messages and the parse of the model's reply  *)
(***************************************************************************)
NO_MATCH == "NO_MATCH"

NOT_AVAILABLE_AR == "@&@&@& (ar: this service is not available)."
NOT_AVAILABLE_EN == "Sorry, this service is not available."
GREETING_AR == "@&@ @&@&@& (ar: how can I help you)?"
GREETING_EN == "How can I help you?"
TIMEOUT_AR == "@&@&@ @&@&@& (ar: timed out, try again)."
TIMEOUT_EN == "Request timed out. Please try again."
ERROR_AR == "@&@ @&@ (ar: an error occurred, try again)."
ERROR_EN == "An error occurred. Please try again."

\* the characters stripped from both ends of the token: asterisk, backtick, comma,
\* period, brackets, parentheses (a TLA+ string cannot hold a backtick: the
\* character "~" stands for it)
KeyPunctuation == CharsOf("*~,.[]()")

Last(seq) == seq[Len(seq)]

Conversation(msg) ==
    [type |-> "conversation", service_key |-> None, service_keys |-> <<>>, message |-> msg]

\* mutant: the text before the first marker is taken instead of the text after
\* the last one
KeyCandidate_FirstPart(line) ==
    LET key_part == Strip(Split(Upper(line), SERVICE_KEY_MARKER)[1])
        toks == SplitWS(key_part)
    IN  IF toks # <<>> THEN StripSet(Lower(toks[1]), KeyPunctuation) ELSE ""

\* the token after the last SERVICE_KEY: marker of a line, lower-cased and
\* stripped of the surrounding punctuation
KeyCandidate(line) ==
    LET key_part == Strip(Last(Split(Upper(line), SERVICE_KEY_MARKER)))
        toks == SplitWS(key_part)
    IN  IF toks # <<>> THEN StripSet(Lower(toks[1]), KeyPunctuation) ELSE ""

\* mutant: a key already collected is appended again
RECURSIVE CollectStructured_NoDedup(_, _, _)
CollectStructured_NoDedup(lines, service_keys, matched_keys) ==
    IF lines = <<>> THEN matched_keys
    ELSE LET line == Head(lines)
             matched == extract_service_key(KeyCandidate(line), service_keys)
             found == /\ Contains(Upper(line), SERVICE_KEY_MARKER)
                      /\ matched # None
         IN  CollectStructured_NoDedup(Tail(lines), service_keys,
                                       IF found THEN Append(matched_keys, matched)
                                       ELSE matched_keys)

\* the loop over the lines of the reply that carry the marker
RECURSIVE CollectStructured(_, _, _)
CollectStructured(lines, service_keys, matched_keys) ==
    IF lines = <<>> THEN matched_keys
    ELSE LET line == Head(lines)
             matched == extract_service_key(KeyCandidate(line), service_keys)
             found == /\ Contains(Upper(line), SERVICE_KEY_MARKER)
                      /\ matched # None
                      /\ \A i \in 1..Len(matched_keys) : matched_keys[i] # matched
         IN  CollectStructured(Tail(lines), service_keys,
                               IF found THEN Append(matched_keys, matched) ELSE matched_keys)

\* the fallback loop over the catalog keys
RECURSIVE CollectLiteral(_, _, _)
CollectLiteral(keys, response, matched_keys) ==
    IF keys = <<>> THEN matched_keys
    ELSE LET key == Head(keys)
             found == /\ Contains(Lower(response), key)
                      /\ \A i \in 1..Len(matched_keys) : matched_keys[i] # key
         IN  CollectLiteral(Tail(keys), response,
                            IF found THEN Append(matched_keys, key) ELSE matched_keys)

\* mutant: the fallback loop also runs after the structured extraction found keys
MatchedKeys_AlwaysScan(response, service_keys) ==
    LET structured ==
            IF Contains(Upper(response), SERVICE_KEY_MARKER)
            THEN CollectStructured(Split(response, "\n"), service_keys, <<>>)
            ELSE <<>>
    IN  CollectLiteral(service_keys, response, structured)

MatchedKeys(response, service_keys) ==
    LET structured ==
            IF Contains(Upper(response), SERVICE_KEY_MARKER)
            THEN CollectStructured(Split(response, "\n"), service_keys, <<>>)
            ELSE <<>>
    IN  IF structured = <<>> THEN CollectLiteral(service_keys, response, <<>>)
        ELSE structured

NoMatchMessage(response, is_arabic) ==
    LET clean_msg == Strip(SubServiceKeyFragments(Strip(Replace(response, NO_MATCH, ""))))
    IN  IF clean_msg = ""
        THEN (IF is_arabic THEN NOT_AVAILABLE_AR ELSE NOT_AVAILABLE_EN)
        ELSE clean_msg

NoKeyMessage(response, is_arabic) ==
    LET clean_response == Strip(SubServiceKeyFragments(Strip(SubSnakeTokens(response))))
    IN  IF clean_response = ""
        THEN (IF is_arabic THEN GREETING_AR ELSE GREETING_EN)
        ELSE clean_response

\* the reply contains the non-match marker
HasNoMatch(response) == Contains(Upper(response), NO_MATCH)

\* the return statements of the try block, given the stripped reply and the
\* keys collected from it
Outcome(response, matched_keys, is_arabic) ==
    IF HasNoMatch(response)
    THEN Conversation(NoMatchMessage(response, is_arabic))
    ELSE IF Len(matched_keys) = 1
    THEN [type |-> "service", service_key |-> matched_keys[1],
          service_keys |-> <<>>, message |-> None]
    ELSE IF Len(matched_keys) > 1
    THEN [type |-> "multi_service", service_key |-> matched_keys[1],
          service_keys |-> matched_keys, message |-> None]
    ELSE Conversation(NoKeyMessage(response, is_arabic))

\* the keys collected when the return statement is reached
Collected(response, service_keys) ==
    IF HasNoMatch(response) THEN <<>> ELSE MatchedKeys(response, service_keys)

\* the body of the try block once subprocess.run has returned stdout
ParseReply(stdout, service_keys, is_arabic) ==
    Outcome(Strip(stdout), Collected(Strip(stdout), service_keys), is_arabic)

(***************************************************************************)
(* The catalog (SERVICES, loaded from services.json) and build_response    *)
(***************************************************************************)
\* bounds of the model
MaxLines == 2
MaxTurns == 2
MaxWords == 2
MaxSteps == 2
MaxChars == 3

SeqsUpTo(S, n) == UNION {[1..k -> S] : k \in 0..n}

RECURSIVE Concat(_)
Concat(strs) == IF strs = <<>> THEN "" ELSE Head(strs) \o Concat(Tail(strs))

ServiceRecord(key, title_ar, title_en, steps_ar, steps_en) ==
    [key |-> key,
     title_ar |-> title_ar, title_en |-> title_en,
     description_ar |-> "@&@ " \o title_ar, description_en |-> "How to: " \o title_en,
     platform |-> "Absher", category |-> "Documents",
     steps_ar |-> steps_ar, steps_en |-> steps_en,
     requirements |-> [ar |-> <<"@&@&">>, en |-> <<"National ID">>],
     official_link |-> "https://www.absher.sa"]

DrivingLicense ==
    ServiceRecord("renew_driving_license", "@&@&@ @&@&", "Renew Driving License",
                  <<"@&@", "&@&">>, <<"Log in", "Pay the fee">>)

Passport ==
    ServiceRecord("passport_renewal", "@&@& @&@", "Passport Renewal",
                  <<"@@&">>, <<"Book an appointment">>)

\* the catalog in the order of the file
DefaultCatalog == <<DrivingLicense, Passport>>

\* catalogs that differ in the steps of their records
StepTexts == {"Log in", "@&@"}

CatalogSet ==
    {<<ServiceRecord("renew_driving_license", "@&@&@ @&@&", "Renew Driving License", sa, se),
       Passport>> : sa \in SeqsUpTo(StepTexts, MaxSteps), se \in SeqsUpTo(StepTexts, MaxSteps)}

\* list(SERVICES.keys())
KeysOf(services) == [i \in 1..Len(services) |-> services[i].key]

HasKey(services, key) == \E i \in 1..Len(services) : services[i].key = key

\* SERVICES[service_key]
Lookup(services, key) == services[CHOOSE i \in 1..Len(services) : services[i].key = key]

KeyError == [raised |-> "KeyError"]

\* mutant: the English branch returns the Arabic steps
build_response_ArabicSteps(services, service_key, language) ==
    IF ~HasKey(services, service_key) THEN KeyError
    ELSE LET service == Lookup(services, service_key)
         IN  [title |-> IF language = "en" THEN service.title_en ELSE service.title_ar,
              platform |-> service.platform,
              category |-> service.category,
              description |-> IF language = "en" THEN service.description_en
                              ELSE service.description_ar,
              steps |-> service.steps_ar,
              requirements |-> IF language = "en" THEN service.requirements.en
                               ELSE service.requirements.ar,
              official_link |-> service.official_link]

build_response(services, service_key, language) ==
    IF ~HasKey(services, service_key) THEN KeyError
    ELSE LET service == Lookup(services, service_key)
         IN  IF language = "en"
             THEN [title |-> service.title_en,
                   platform |-> service.platform,
                   category |-> service.category,
                   description |-> service.description_en,
                   steps |-> service.steps_en,
                   requirements |-> service.requirements.en,
                   official_link |-> service.official_link]
             ELSE [title |-> service.title_ar,
                   platform |-> service.platform,
                   category |-> service.category,
                   description |-> service.description_ar,
                   steps |-> service.steps_ar,
                   requirements |-> service.requirements.ar,
                   official_link |-> service.official_link]

(***************************************************************************)
(* ask_llm_intent: the call of the model process and its three exits       *)
(***************************************************************************)
\* what the except clauses and the try block return; matched_keys is the local
\* list of the parse, kept next to the returned dictionary. exit tells how
\* subprocess.run ended: "exited" (status 0, stdout returned), "failed"
\* (CalledProcessError or OSError), "killed" (TimeoutExpired)
Returned(ret, matched_keys) == [ret |-> ret, matched_keys |-> matched_keys]

ReturnParsed(response, matched_keys, is_arabic) ==
    Returned(Outcome(response, matched_keys, is_arabic), matched_keys)

\* mutant: the generic handler also catches the timeout
ask_llm_intent_GenericHandler(user_query, services, exit, stdout) ==
    LET is_arabic == detect_query_language(user_query) = "ar"
        service_keys == KeysOf(services)
    IN  IF exit \in {"killed", "failed"}
        THEN Returned(Conversation(IF is_arabic THEN ERROR_AR ELSE ERROR_EN), <<>>)
        ELSE ReturnParsed(Strip(stdout), Collected(Strip(stdout), service_keys), is_arabic)

ask_llm_intent(user_query, services, exit, stdout) ==
    LET is_arabic == detect_query_language(user_query) = "ar"
        service_keys == KeysOf(services)
    IN  IF exit = "killed"
        THEN Returned(Conversation(IF is_arabic THEN TIMEOUT_AR ELSE TIMEOUT_EN), <<>>)
        ELSE IF exit = "failed"
        THEN Returned(Conversation(IF is_arabic THEN ERROR_AR ELSE ERROR_EN), <<>>)
        ELSE ReturnParsed(Strip(stdout), Collected(Strip(stdout), service_keys), is_arabic)

(***************************************************************************)
(* app.py: rendering of the chat history                                   *)
(***************************************************************************)
NO_SERVICE_AR == "@&@ @&@& (ar: no matching service found)."
NO_SERVICE_EN == "No matching service found."

render_ai_response(services, msg_data, use_ar) ==
    LET lang == IF use_ar THEN "ar" ELSE "en"
        has_key == msg_data.service_key # None /\ msg_data.service_key # ""
        has_keys == msg_data.service_keys # <<>>
        has_message == msg_data.custom_message # None /\ msg_data.custom_message # ""
        service_keys_to_render ==
            IF has_keys THEN msg_data.service_keys ELSE <<msg_data.service_key>>
    IN  IF has_message /\ ~has_key /\ ~has_keys
        THEN [lang |-> lang, text |-> msg_data.custom_message, services |-> <<>>]
        ELSE IF ~has_key /\ ~has_keys
        THEN [lang |-> lang, text |-> IF use_ar THEN NO_SERVICE_AR ELSE NO_SERVICE_EN,
              services |-> <<>>]
        ELSE [lang |-> lang, text |-> "",
              services |-> [i \in 1..Len(service_keys_to_render) |->
                               build_response(services, service_keys_to_render[i], lang)]]

RenderFails(bubble) == \E i \in 1..Len(bubble.services) : bubble.services[i] = KeyError

\* the chat-history loop of a script run; a failed lookup ends the run
RECURSIVE RenderHistory(_, _)
RenderHistory(services, msgs) ==
    IF msgs = <<>> THEN <<>>
    ELSE LET msg == Head(msgs)
             bubble == IF msg.role = "user"
                       THEN [lang |-> IF msg.msg_is_ar THEN "ar" ELSE "en",
                             text |-> msg.content, services |-> <<>>]
                       ELSE render_ai_response(services, msg, msg.response_is_ar)
         IN  IF RenderFails(bubble) THEN <<bubble>>
             ELSE <<bubble>> \o RenderHistory(services, Tail(msgs))

(***************************************************************************)
(* What the model process writes, what the user types                      *)
(***************************************************************************)
\* the lines a reply is made of; names is the catalog key a line of the form
\* "SERVICE_KEY: <key>" names, None for every other line
ReplyLines ==
    << [text |-> "SERVICE_KEY: passport_renewal", names |-> "passport_renewal"],
       [text |-> "SERVICE_KEY: renew_driving_license", names |-> "renew_driving_license"],
       [text |-> "service_key: **Passport_Renewal**.", names |-> "passport_renewal"],
       [text |-> "NO_MATCH", names |-> None],
       [text |-> "no_match", names |-> None],
       [text |-> "NO_MATCH. This service is not available.", names |-> None],
       [text |-> "Hello! How can I help?", names |-> None],
       [text |-> "SERVICE_KEY: unknown_service", names |-> None],
       [text |-> "Use passport_renewal on Absher.", names |-> None],
       [text |-> "[visa_issue]", names |-> None],
       [text |-> "", names |-> None],
       [text |-> "Try passport_renewal or RENEW_DRIVING_LICENSE.", names |-> None] >>

LineIds == 1..Len(ReplyLines)

\* the bytes on stdout: every line ends with a newline
StdoutOf(ids) == Concat([i \in 1..Len(ids) |-> ReplyLines[ids[i]].text \o "\n"])

\* the replies of the session specification
SessionReplies == {<<1>>, <<2, 1>>, <<1, 1>>, <<4>>, <<5, 2>>, <<7>>, <<8>>, <<9>>, <<>>}

ErrorTexts == {"Command returned non-zero exit status 1", "No such file or directory: ollama"}

Queries == {"renew my passport", "@&@&@ @&@& passport"}

BlankInputs == {"", "  "}

(***************************************************************************)
(* State                                                                   *)
(***************************************************************************)
VARIABLES
    SERVICES,       \* the catalog loaded at import
    messages,       \* st.session_state.messages
    display,        \* the chat bubbles the last script run rendered
    calls,          \* how many times the script has called ask_llm_intent
    pc,             \* where the flow is
    proc,           \* the model process of the call in progress
    user_input,     \* the query of the call
    wrote,          \* the lines the model process wrote (ids of ReplyLines)
    stdout,         \* result.stdout
    error_text,     \* the text of the exception of a failed invocation
    result,         \* the dictionary ask_llm_intent returned
    matched_keys,   \* matched_keys when ask_llm_intent returned
    candidate,      \* extract_service_key: response
    valid_keys,     \* extract_service_key: valid_keys
    matched,        \* extract_service_key: the returned key
    service_key,    \* build_response: service_key
    language,       \* build_response: language
    response,       \* build_response: the returned dictionary
    query,          \* detect_query_language: text
    detected        \* detect_query_language: the returned language code

vars == <<SERVICES, messages, display, calls, pc, proc, user_input, wrote, stdout, error_text,
          result, matched_keys, candidate, valid_keys, matched, service_key, language,
          response, query, detected>>

sessionVars == <<messages, display, calls>>
callVars == <<proc, user_input, wrote, stdout, error_text, result, matched_keys>>
matchVars == <<candidate, valid_keys, matched>>
formatVars == <<service_key, language, response>>
detectVars == <<query, detected>>

NoResult == [type |-> "", service_key |-> None, service_keys |-> <<>>, message |-> None]

NoCall ==
    /\ proc = "none" /\ user_input = "" /\ wrote = <<>> /\ stdout = ""
    /\ error_text = "" /\ result = NoResult /\ matched_keys = <<>>

NoMatchCall == candidate = "" /\ valid_keys = <<>> /\ matched = None

NoFormatCall == service_key = "" /\ language = "" /\ response = <<>>

NoDetectCall == query = "" /\ detected = ""

(***************************************************************************)
(* The session: app.py query processing around ask_llm_intent              *)
(***************************************************************************)
Init ==
    /\ SERVICES = DefaultCatalog
    /\ messages = <<>>
    /\ display = <<>>
    /\ calls = 0
    /\ pc = "idle"
    /\ NoCall /\ NoMatchCall /\ NoFormatCall /\ NoDetectCall

UserTurn(text) ==
    [role |-> "user", content |-> text, msg_is_ar |-> detect_query_language(text) = "ar"]

\* mutant: the assistant turn is flagged as English whatever the query
AssistantTurn_AlwaysEnglish(text, res) ==
    [role |-> "assistant",
     result_type |-> res.type,
     service_key |-> res.service_key,
     service_keys |-> res.service_keys,
     custom_message |-> res.message,
     response_is_ar |-> FALSE]

AssistantTurn(text, res) ==
    [role |-> "assistant",
     result_type |-> res.type,
     service_key |-> res.service_key,
     service_keys |-> res.service_keys,
     custom_message |-> res.message,
     response_is_ar |-> detect_query_language(text) = "ar"]

\* the form is submitted with a blank input: the script runs to its end and
\* nothing is stored
SubmitBlank ==
    /\ pc = "idle"
    /\ \E text \in BlankInputs :
        /\ Strip(text) = ""
        /\ display' = RenderHistory(SERVICES, messages)
    /\ UNCHANGED <<SERVICES, messages, calls, pc, callVars, matchVars, formatVars, detectVars>>

\* the form is submitted with a query: the user turn is stored and
\* ask_llm_intent starts the model process
Submit ==
    /\ pc = "idle"
    /\ Len(messages) < 2 * MaxTurns
    /\ \E text \in Queries :
        /\ Strip(text) # ""
        /\ messages' = Append(messages, UserTurn(text))
        /\ user_input' = text
    /\ calls' = calls + 1
    /\ pc' = "calling"
    /\ proc' = "running"
    /\ wrote' = <<>> /\ stdout' = "" /\ error_text' = ""
    /\ result' = NoResult /\ matched_keys' = <<>>
    /\ UNCHANGED <<SERVICES, display, matchVars, formatVars, detectVars>>

\* ask_llm_intent returns, the assistant turn is stored and st.rerun() renders
\* the history
Return(exit, out) ==
    LET r == ask_llm_intent(user_input, SERVICES, exit, out)
    IN  /\ result' = r.ret
        /\ matched_keys' = r.matched_keys
        /\ messages' = Append(messages, AssistantTurn(user_input, r.ret))
        /\ display' = RenderHistory(SERVICES, messages')
        /\ pc' = "idle"
        /\ UNCHANGED <<SERVICES, calls, user_input, matchVars, formatVars, detectVars>>

\* the model process writes its reply and exits with status 0
ProcessReplies ==
    /\ pc = "calling" /\ proc = "running"
    /\ \E ids \in SessionReplies :
        /\ wrote' = ids
        /\ stdout' = StdoutOf(ids)
        /\ Return("exited", StdoutOf(ids))
    /\ proc' = "exited"
    /\ UNCHANGED error_text

\* the process cannot be started or exits with a non-zero status
ProcessFails ==
    /\ pc = "calling" /\ proc = "running"
    /\ \E e \in ErrorTexts : error_text' = e
    /\ Return("failed", "")
    /\ proc' = "failed"
    /\ UNCHANGED <<wrote, stdout>>

\* the process stops making progress and will never answer
ProcessHangs ==
    /\ pc = "calling" /\ proc = "running"
    /\ proc' = "hung"
    /\ UNCHANGED <<SERVICES, sessionVars, pc, user_input, wrote, stdout, error_text,
                   result, matched_keys, matchVars, formatVars, detectVars>>

\* mutant: subprocess.run is called without a timeout
TimeoutExpires_NoTimeout ==
    /\ pc = "calling" /\ proc \in {}
    /\ Return("killed", "")
    /\ proc' = "killed"
    /\ UNCHANGED <<wrote, stdout, error_text>>

\* LLM_TIMEOUT seconds have passed: subprocess.run kills the process and raises
\* TimeoutExpired
TimeoutExpires ==
    /\ pc = "calling" /\ proc \in {"running", "hung"}
    /\ Return("killed", "")
    /\ proc' = "killed"
    /\ UNCHANGED <<wrote, stdout, error_text>>

Next ==
    \/ SubmitBlank
    \/ Submit
    \/ ProcessReplies
    \/ ProcessFails
    \/ ProcessHangs
    \/ TimeoutExpires

Spec == Init /\ [][Next]_vars

\* subprocess.run(timeout=LLM_TIMEOUT) bounds the call by the wall clock
FairSpec == Spec /\ WF_vars(TimeoutExpires)

(***************************************************************************)
(* ask_llm_intent as a function of the query and of how the process ended  *)
(***************************************************************************)
Replies == SeqsUpTo(LineIds, MaxLines)

ParseInit ==
    /\ SERVICES = DefaultCatalog
    /\ messages = <<>> /\ display = <<>> /\ calls = 0
    /\ pc = "called"
    /\ user_input \in Queries
    /\ \/ /\ proc = "exited"
          /\ wrote \in Replies
          /\ stdout = StdoutOf(wrote)
          /\ error_text = ""
       \/ /\ proc = "failed"
          /\ wrote = <<>> /\ stdout = ""
          /\ error_text \in ErrorTexts
       \/ /\ proc = "killed"
          /\ wrote = <<>> /\ stdout = "" /\ error_text = ""
    /\ result = NoResult /\ matched_keys = <<>>
    /\ NoMatchCall /\ NoFormatCall /\ NoDetectCall

AskLlmIntent ==
    /\ pc = "called" /\ proc \in {"exited", "failed", "killed"}
    /\ LET r == ask_llm_intent(user_input, SERVICES, proc, stdout)
       IN  /\ result' = r.ret
           /\ matched_keys' = r.matched_keys
    /\ pc' = "returned"
    /\ UNCHANGED <<SERVICES, sessionVars, proc, user_input, wrote, stdout, error_text,
                   matchVars, formatVars, detectVars>>

ParseNext == AskLlmIntent

ParseSpec == ParseInit /\ [][ParseNext]_vars

(***************************************************************************)
(* extract_service_key as a function of its arguments                      *)
(***************************************************************************)
Words ==
    {"renew_driving_license", "passport_renewal", "renew driving license",
     "passport renewal", "unrelated text", "none", "Passport_Renewal.",
     "xpassport_renewal", "renew_iqama"}

RECURSIVE JoinWords(_)
JoinWords(ws) ==
    IF ws = <<>> THEN ""
    ELSE IF Len(ws) = 1 THEN ws[1]
    ELSE ws[1] \o " " \o JoinWords(Tail(ws))

Candidates == {JoinWords(ws) : ws \in SeqsUpTo(Words, MaxWords)}

KeyLists ==
    {<<"renew_driving_license">>,
     <<"renew_driving_license", "passport_renewal">>,
     <<"passport_renewal", "renew_driving_license">>,
     <<"renew_iqama", "passport_renewal">>,
     <<>>}

MatchInit ==
    /\ SERVICES = DefaultCatalog
    /\ messages = <<>> /\ display = <<>> /\ calls = 0
    /\ pc = "called"
    /\ NoCall /\ NoFormatCall /\ NoDetectCall
    /\ candidate \in Candidates
    /\ valid_keys \in KeyLists
    /\ matched = None

ExtractServiceKey ==
    /\ pc = "called"
    /\ matched' = extract_service_key(candidate, valid_keys)
    /\ pc' = "returned"
    /\ UNCHANGED <<SERVICES, sessionVars, callVars, candidate, valid_keys, formatVars, detectVars>>

MatchNext == ExtractServiceKey

MatchSpec == MatchInit /\ [][MatchNext]_vars

(***************************************************************************)
(* build_response as a function of the catalog and its arguments           *)
(***************************************************************************)
FormatInit ==
    /\ SERVICES \in CatalogSet
    /\ messages = <<>> /\ display = <<>> /\ calls = 0
    /\ pc = "called"
    /\ NoCall /\ NoMatchCall /\ NoDetectCall
    /\ service_key \in {SERVICES[i].key : i \in 1..Len(SERVICES)}
    /\ language \in {"ar", "en"}
    /\ response = <<>>

BuildResponse ==
    /\ pc = "called"
    /\ response' = build_response(SERVICES, service_key, language)
    /\ pc' = "returned"
    /\ UNCHANGED <<SERVICES, sessionVars, callVars, matchVars, service_key, language, detectVars>>

FormatNext == BuildResponse

FormatSpec == FormatInit /\ [][FormatNext]_vars

(***************************************************************************)
(* detect_query_language as a function of its argument                     *)
(***************************************************************************)
\* two characters of the block U+0600..U+06FF, a lower-case and an upper-case
\* Latin letter, a digit and a space
Alphabet == {"@", "&", "a", "Z", "7", " "}

Texts == {Concat(cs) : cs \in SeqsUpTo(Alphabet, MaxChars)}

DetectInit ==
    /\ SERVICES = DefaultCatalog
    /\ messages = <<>> /\ display = <<>> /\ calls = 0
    /\ pc = "called"
    /\ NoCall /\ NoMatchCall /\ NoFormatCall
    /\ query \in Texts
    /\ detected = ""

DetectQueryLanguage ==
    /\ pc = "called"
    /\ detected' = detect_query_language(query)
    /\ pc' = "returned"
    /\ UNCHANGED <<SERVICES, sessionVars, callVars, matchVars, formatVars, query>>

DetectNext == DetectQueryLanguage

DetectSpec == DetectInit /\ [][DetectNext]_vars

(***************************************************************************)
(* Properties of the reply parser (ParseSpec)                              *)
(***************************************************************************)
\* the language of each query, by construction of Queries
QueryLanguage ==
    [q \in Queries |-> IF q = "@&@&@ @&@& passport" THEN "ar" ELSE "en"]

QueryIsArabic == QueryLanguage[user_input] = "ar"

Parsed == pc = "returned" /\ proc = "exited"

RECURSIVE Dedup(_, _)
Dedup(seq, seen) ==
    IF seq = <<>> THEN <<>>
    ELSE IF Head(seq) \in seen THEN Dedup(Tail(seq), seen)
    ELSE <<Head(seq)>> \o Dedup(Tail(seq), seen \cup {Head(seq)})

\* the catalog keys the SERVICE_KEY lines of a reply name, in order of first
\* occurrence, each once
NamedKeys(ids) ==
    Dedup(SelectSeq([i \in 1..Len(ids) |-> ReplyLines[ids[i]].names],
                    LAMBDA k : k # None), {})

MarkerLineIds == {i \in LineIds : Contains(Upper(ReplyLines[i].text), NO_MATCH)}

HasMarkerLine(ids) == \E i \in 1..Len(ids) : ids[i] \in MarkerLineIds

KeysOfResult(r) ==
    IF r.type = "service" THEN <<r.service_key>>
    ELSE IF r.type = "multi_service" THEN r.service_keys
    ELSE <<>>

NamedKeysReturned ==
    /\ result.type = (IF Len(NamedKeys(wrote)) = 1 THEN "service" ELSE "multi_service")
    /\ KeysOfResult(result) = NamedKeys(wrote)

\* C1 as stated: every reply with at least one SERVICE_KEY line that names a
\* catalog key is parsed to 'service' or 'multi_service' carrying exactly the
\* named keys, deduplicated, in order of first occurrence
C1_Original ==
    (Parsed /\ NamedKeys(wrote) # <<>>) => NamedKeysReturned

\* C1 (amended): the same for every such reply that does not contain the
\* NO_MATCH marker; a reply naming the same key twice yields 'service'
C1_NamedKeys ==
    (Parsed /\ NamedKeys(wrote) # <<>> /\ ~HasMarkerLine(wrote)) => NamedKeysReturned

C1_Witness ==
    /\ Parsed /\ wrote = <<1, 1>>
    /\ result.type = "service" /\ result.service_key = "passport_renewal"

NoDuplicates(seq) == \A i, j \in 1..Len(seq) : i # j => seq[i] # seq[j]

DistinctCollected == {matched_keys[i] : i \in 1..Len(matched_keys)}

\* C2: a 'multi_service' outcome carries at least 2 keys without duplicates, and
\* 'service' is returned exactly when one distinct key was collected
C2_OutcomeShape ==
    pc = "returned" =>
        /\ result.type \in {"service", "multi_service", "conversation"}
        /\ result.type = "multi_service" =>
              /\ Len(result.service_keys) >= 2
              /\ NoDuplicates(result.service_keys)
              /\ Cardinality(DistinctCollected) >= 2
        /\ result.type = "service" =>
              /\ DistinctCollected = {result.service_key}
              /\ result.service_keys = <<>>
        /\ Cardinality(DistinctCollected) = 1 => result.type = "service"
        /\ Cardinality(DistinctCollected) >= 2 => result.type = "multi_service"

C2_Witness ==
    /\ Parsed /\ result.type = "multi_service"
    /\ result.service_keys = <<"renew_driving_license", "passport_renewal">>

\* C3: the reply "NO_MATCH. This service is not available." yields the
\* conversation message "This service is not available."
C3_MarkerStripped ==
    (Parsed /\ wrote = <<6>>) => result = Conversation("This service is not available.")

\* a reply that is the marker, in upper or lower case, among blank lines
OnlyMarker(ids) ==
    /\ Cardinality({i \in 1..Len(ids) : ids[i] \in {4, 5}}) = 1
    /\ \A i \in 1..Len(ids) : ids[i] \in {4, 5, 11}

\* C4: a reply that is only the marker, in any letter case, yields the canned
\* 'not available' message of the query's language
C4_OnlyMarkerCanned ==
    (Parsed /\ OnlyMarker(wrote)) =>
        result = Conversation(IF QueryIsArabic THEN NOT_AVAILABLE_AR ELSE NOT_AVAILABLE_EN)

\* C5: a failed invocation returns a conversation outcome with the localized
\* timeout message (timeout) or generic error message (non-zero exit, spawn or
\* I/O failure), service_key None, and nothing of the process error text
C5_FailureHandled ==
    /\ (pc = "returned" /\ proc = "killed") =>
          result = Conversation(IF QueryIsArabic THEN TIMEOUT_AR ELSE TIMEOUT_EN)
    /\ (pc = "returned" /\ proc = "failed") =>
          /\ result = Conversation(IF QueryIsArabic THEN ERROR_AR ELSE ERROR_EN)
          /\ ~Contains(result.message, error_text)

C5_Witness ==
    /\ pc = "returned" /\ proc = "failed" /\ QueryIsArabic
    /\ error_text = "No such file or directory: ollama"
    /\ result.message = ERROR_AR

\* the reply without its 'SERVICE_KEY: <token>' fragments and without its
\* bracketed or snake_case-looking tokens
WithoutFragmentsAndTokens(text) == Strip(SubSnakeTokens(SubServiceKeyFragments(text)))

\* C6: a reply from which no catalog key is collected yields a conversation
\* whose message is never empty: the reply without tokens and fragments, or the
\* canned greeting of the query's language when nothing remains
C6_NoKeyConversation ==
    (Parsed /\ matched_keys = <<>> /\ ~HasMarkerLine(wrote)) =>
        /\ result.type = "conversation"
        /\ result.message # ""
        /\ result.message =
              (IF WithoutFragmentsAndTokens(Strip(stdout)) = ""
               THEN (IF QueryIsArabic THEN GREETING_AR ELSE GREETING_EN)
               ELSE WithoutFragmentsAndTokens(Strip(stdout)))

(***************************************************************************)
(* Properties of the session (Spec, FairSpec)                              *)
(***************************************************************************)
\* C7: every classification call returns: a call in progress leads to the
\* session idle again with the assistant turn of that call appended, whether
\* the process answers, fails or never answers
C7_CallReturns ==
    \A n \in 0..(2 * MaxTurns) :
        (pc = "calling" /\ Len(messages) = n)
            ~> (/\ pc = "idle"
                /\ Len(messages) = n + 1
                /\ messages[n + 1].role = "assistant")

C7_Witness ==
    /\ pc = "idle" /\ proc = "killed"
    /\ Len(messages) = 2 /\ messages[2].role = "assistant"
    /\ messages[2].custom_message = TIMEOUT_EN

CatalogKeys == {SERVICES[i].key : i \in 1..Len(SERVICES)}

AssistantTurns == {i \in 1..Len(messages) : messages[i].role = "assistant"}

\* C8: every key a stored assistant turn holds is a catalog key, and no lookup
\* of the rendering of the history fails
C8_StoredKeysInCatalog ==
    /\ \A i \in AssistantTurns :
          /\ messages[i].service_key # None => messages[i].service_key \in CatalogKeys
          /\ \A j \in 1..Len(messages[i].service_keys) :
                messages[i].service_keys[j] \in CatalogKeys
    /\ \A i \in 1..Len(display) : ~RenderFails(display[i])

C8_Witness ==
    /\ pc = "idle" /\ Len(messages) = 4 /\ Len(display) = 4
    /\ messages[2].result_type = "multi_service"
    /\ messages[4].result_type = "service"
    /\ Len(display[2].services) = 2

(***************************************************************************)
(* Properties of the key matcher (MatchSpec)                               *)
(***************************************************************************)
MatchesA == {i \in 1..Len(valid_keys) : WholeWordSearch(valid_keys[i], Lower(candidate))}

MatchesB ==
    {i \in 1..Len(valid_keys) :
        Contains(Lower(candidate), Replace(valid_keys[i], "_", " "))}

\* the first key by Strategy A over all keys, else the first by Strategy B
FirstByAThenB ==
    IF MatchesA # {} THEN valid_keys[MinOf(MatchesA)]
    ELSE IF MatchesB # {} THEN valid_keys[MinOf(MatchesB)]
    ELSE None

\* the candidate contains "none" and is shorter than 20 characters
Declines ==
    /\ Contains(Strip(Lower(candidate)), "none")
    /\ Len(Strip(Lower(candidate))) < 20

MatchExamples ==
    valid_keys = <<"renew_driving_license">> =>
        /\ candidate = "renew_driving_license" =>
              matched = "renew_driving_license" /\ MatchesA = {1}
        /\ candidate = "renew driving license" =>
              matched = "renew_driving_license" /\ MatchesA = {} /\ MatchesB = {1}
        /\ candidate = "unrelated text" => matched = None

\* C9 as stated: the first key in catalog order matching as a whole word, over
\* all keys, else the first key whose underscore-to-space form is a substring,
\* else no match
C9_Original ==
    pc = "returned" => (matched = FirstByAThenB /\ MatchExamples)

\* C9 (amended): the same, except that a candidate that contains "none" and is
\* shorter than 20 characters matches nothing
C9_Matcher ==
    pc = "returned" =>
        /\ matched = (IF Declines THEN None ELSE FirstByAThenB)
        /\ MatchExamples

C9_Witness ==
    /\ pc = "returned"
    /\ candidate = "renew driving license passport_renewal"
    /\ valid_keys = <<"renew_driving_license", "passport_renewal">>
    /\ matched = "passport_renewal"

(***************************************************************************)
(* Properties of the response formatter (FormatSpec)                       *)
(***************************************************************************)
Record == Lookup(SERVICES, service_key)

Projected ==
    pc = "returned" =>
        /\ language = "en" =>
              /\ response.steps = Record.steps_en
              /\ response.title = Record.title_en
              /\ response.description = Record.description_en
              /\ response.requirements = Record.requirements.en
        /\ language = "ar" =>
              /\ response.steps = Record.steps_ar
              /\ response.title = Record.title_ar
              /\ response.description = Record.description_ar
              /\ response.requirements = Record.requirements.ar
        /\ response.platform = Record.platform
        /\ response.category = Record.category
        /\ response.official_link = Record.official_link

\* C10: build_response projects the record of the key: the English fields for
\* 'en', the Arabic fields for 'ar', platform, category and official_link for
\* both, and the catalog is not modified
C10_PureProjection == []Projected /\ [][SERVICES' = SERVICES]_vars

C10_Witness ==
    /\ pc = "returned" /\ language = "en"
    /\ service_key = "renew_driving_license"
    /\ response.steps = <<"Log in", "@&@">>
    /\ Record.steps_ar = <<"@&@">>

(***************************************************************************)
(* Properties of the language detector (DetectSpec)                        *)
(***************************************************************************)
\* the characters of Alphabet in the block U+0600..U+06FF and in [a-zA-Z]
ArabicOfAlphabet == {"@", "&"}
LatinOfAlphabet == {"a", "Z"}

\* the Arabic characters of s minus its Latin letters, one character at a time
RECURSIVE Excess(_)
Excess(s) ==
    IF s = "" THEN 0
    ELSE (IF Head(s) \in ArabicOfAlphabet THEN 1
          ELSE IF Head(s) \in LatinOfAlphabet THEN -1 ELSE 0) + Excess(Tail(s))

\* C11: detect_query_language returns for every text, the empty one included,
\* exactly "ar" or "en": "ar" if and only if the text has strictly more
\* characters of the Arabic block than Latin letters, "en" otherwise (a tie and
\* a text with neither included)
C11_LanguageByMajority ==
    pc = "returned" =>
        /\ detected \in {"ar", "en"}
        /\ detected = "ar" <=> Excess(query) > 0
        /\ Excess(query) = 0 => detected = "en"
        /\ query = "" => detected = "en"

\* a tie of one Arabic character and one Latin letter has been decided for "en"
C11_Witness ==
    /\ pc = "returned" /\ detected = "en"
    /\ \E i, j \in 1..Len(query) :
           Ch(query, i) \in ArabicOfAlphabet /\ Ch(query, j) \in LatinOfAlphabet
    /\ Excess(query) = 0

(***************************************************************************)
(* Further properties of the reply parser (ParseSpec)                      *)
(***************************************************************************)
\* C12: a reply that contains the non-match marker yields a conversation
\* outcome, also when SERVICE_KEY lines name catalog keys, and the message
\* contains neither the marker nor a "SERVICE_KEY: <token>" fragment
C12_NoMatchFirst ==
    (Parsed /\ HasMarkerLine(wrote)) =>
        /\ result.type = "conversation"
        /\ result.service_key = None
        /\ ~Contains(Upper(result.message), NO_MATCH)
        /\ SubServiceKeyFragments(result.message) = result.message

\* the catalog keys the text of each line of ReplyLines contains, in any case
Mentions ==
    [i \in LineIds |->
        IF i \in {1, 3, 9} THEN {"passport_renewal"}
        ELSE IF i = 2 THEN {"renew_driving_license"}
        ELSE IF i = 12 THEN {"passport_renewal", "renew_driving_license"}
        ELSE {}]

Mentioned(ids) == UNION {Mentions[ids[i]] : i \in 1..Len(ids)}

\* the catalog keys of a set, in the order of the catalog
InCatalogOrder(keys) == SelectSeq(KeysOf(SERVICES), LAMBDA k : k \in keys)

\* the keys of the outcome are the keys resolved from the SERVICE_KEY lines if
\* there is at least one, else the catalog keys the reply contains in any case,
\* each once, in the order of the catalog
StructuredElseLiteral ==
    KeysOfResult(result) =
        (IF NamedKeys(wrote) # <<>> THEN NamedKeys(wrote)
         ELSE InCatalogOrder(Mentioned(wrote)))

\* C13 as stated: for every reply, keys that only appear outside the resolved
\* SERVICE_KEY lines are not added, and without a resolved line the keys of the
\* outcome are the catalog keys the reply contains, in the order of the catalog
C13_Original ==
    Parsed => StructuredElseLiteral

\* C13 (amended): the same for every reply that does not contain the non-match
\* marker; the fallback scan runs only when the structured extraction
\* collected no key
C13_FallbackOnlyWithoutStructured ==
    (Parsed /\ ~HasMarkerLine(wrote)) =>
        /\ matched_keys = KeysOfResult(result)
        /\ StructuredElseLiteral

\* a SERVICE_KEY line resolved one key and another line mentions a different
\* key, which the outcome does not carry
C13_Witness ==
    /\ Parsed /\ ~HasMarkerLine(wrote)
    /\ Len(NamedKeys(wrote)) = 1
    /\ Mentioned(wrote) = {"passport_renewal", "renew_driving_license"}
    /\ result.type = "service" /\ result.service_key = NamedKeys(wrote)[1]

(***************************************************************************)
(* Properties of the chat history (Spec)                                   *)
(***************************************************************************)
\* user turns at the odd positions, assistant turns at the even ones
Alternates ==
    \A i \in 1..Len(messages) :
        messages[i].role = (IF i % 2 = 1 THEN "user" ELSE "assistant")

\* both turns of a submission carry the language of its query
FlagsFollowQuery ==
    \A i \in 1..Len(messages) :
        i % 2 = 0 =>
            /\ messages[i - 1].content \in Queries
            /\ messages[i - 1].msg_is_ar = (QueryLanguage[messages[i - 1].content] = "ar")
            /\ messages[i].response_is_ar = (QueryLanguage[messages[i - 1].content] = "ar")

\* one call per user turn, and between submissions every call has been answered
OneCallPerQuery ==
    /\ calls = Cardinality({i \in 1..Len(messages) : messages[i].role = "user"})
    /\ pc = "idle" => Len(messages) = 2 * calls
    /\ pc = "calling" => Len(messages) = 2 * calls - 1

Appended(role) ==
    /\ Len(messages') = Len(messages) + 1
    /\ SubSeq(messages', 1, Len(messages)) = messages
    /\ messages'[Len(messages')].role = role

\* a step leaves the history and the number of calls alone (a blank submission
\* among them), or it is a submission that stores the user turn of a non-blank
\* query and makes one call, or the return of that call, which stores the
\* assistant turn
HistoryStep ==
    \/ messages' = messages /\ calls' = calls
    \/ /\ pc = "idle" /\ pc' = "calling"
       /\ Appended("user") /\ calls' = calls + 1
       /\ Strip(messages'[Len(messages')].content) # ""
    \/ /\ pc = "calling" /\ pc' = "idle"
       /\ Appended("assistant") /\ calls' = calls

\* C14: the history only grows and alternates user turn, assistant turn: a
\* non-blank submission makes exactly one call and stores one user turn, then
\* one assistant turn whose language flag is the language of the query; a blank
\* submission (a step from idle to idle) changes neither history nor calls
C14_History ==
    /\ [](Alternates /\ FlagsFollowQuery /\ OneCallPerQuery)
    /\ [][HistoryStep]_vars
    /\ [][(pc = "idle" /\ pc' = "idle") => (messages' = messages /\ calls' = calls)]_vars

\* two submissions, the first in English and the second in Arabic, have been
\* answered
C14_Witness ==
    /\ pc = "idle" /\ Len(messages) = 4 /\ calls = 2
    /\ ~messages[1].msg_is_ar /\ ~messages[2].response_is_ar
    /\ messages[3].msg_is_ar /\ messages[4].response_is_ar

====
